---- MODULE Spec2Model ----
(***************************************************************************)
(* Softbody dynamics (src/softbody.js): a scene of spring-mass softbodies  *)
(* stepped by scene.update().  One action per phase of the update loop,   *)
(* plus a second specification that calls the methods of one body in any  *)
(* order.                                                                  *)
(*                                                                         *)
(* Numbers.  The program computes with JavaScript doubles.  Here a number  *)
(* is a fixed-point decimal: the integer n stands for n / Scale, products, *)
(* quotients are rounded to the nearest multiple of 1 / Scale and square   *)
(* roots are rounded down.  Values that are representable (integers,       *)
(* halves, 3-4-5 triangles, quarter turns) are computed exactly.           *)
(***************************************************************************)
EXTENDS Integers, Sequences, FiniteSets, TLC

Scale == 10 ^ 3

Num(n) == n * Scale

Abs(a) == IF a < 0 THEN -a ELSE a

Sgn(a) == IF a < 0 THEN -1 ELSE 1

Min(a, b) == IF a <= b THEN a ELSE b

Max(a, b) == IF a >= b THEN a ELSE b

\* floor(a * b / Scale) for a, b >= 0, without an intermediate a * b
MulFloor(a, b) ==
    (a \div Scale) * (b \div Scale) * Scale
    + (a \div Scale) * (b % Scale)
    + (a % Scale) * (b \div Scale)
    + ((a % Scale) * (b % Scale)) \div Scale

MulAbs(a, b) ==
    (a \div Scale) * (b \div Scale) * Scale
    + (a \div Scale) * (b % Scale)
    + (a % Scale) * (b \div Scale)
    + ((a % Scale) * (b % Scale) + Scale \div 2) \div Scale

\* the JS product a * b
Mul(a, b) == Sgn(a) * Sgn(b) * MulAbs(Abs(a), Abs(b))

DivStep(s, b) == [q |-> s.q * 10 + (s.r * 10) \div b, r |-> (s.r * 10) % b]

DivAbs(a, b) ==
    LET s0 == [q |-> a \div b, r |-> a % b]
        s3 == DivStep(DivStep(DivStep(s0, b), b), b)
    IN  s3.q + (IF 2 * s3.r >= b THEN 1 ELSE 0)

\* the JS quotient a / b, b # 0
Div(a, b) == Sgn(a) * Sgn(b) * DivAbs(Abs(a), Abs(b))

SqrtCap == 1460 * Scale

RECURSIVE SqrtSearch(_, _, _)
SqrtSearch(a, lo, hi) ==
    IF hi - lo <= 1 THEN lo
    ELSE LET mid == (lo + hi) \div 2
         IN  IF MulFloor(mid, mid) < a
                \/ (MulFloor(mid, mid) = a /\ ((mid % Scale) * (mid % Scale)) % Scale = 0)
             THEN SqrtSearch(a, mid, hi)
             ELSE SqrtSearch(a, lo, mid)

\* Math.sqrt(a), a >= 0
Sqrt(a) == SqrtSearch(a, 0, Min(Max(a, Scale) + 1, SqrtCap))

\* pow(a, n) for the exponents the program uses (2, 3, 5)
RECURSIVE Pow(_, _)
Pow(a, n) == IF n = 0 THEN Scale ELSE Mul(Pow(a, n - 1), a)

\* PI, as the fraction 355 / 113 rounded to the nearest representable
Pi == (355 * Scale + 56) \div 113

HALF_PI == Pi \div 2

TwoPi == 2 * Pi

\* radians(deg) of p5: deg * PI / 180
radians(deg) == Div(Mul(deg, Pi), Num(180))

\* sine and cosine of an angle in [0, HALF_PI): Taylor polynomials
SinSmall(x) ==
    LET x2 == Mul(x, x)
        x3 == Mul(x2, x)
        x5 == Mul(x3, x2)
        x7 == Mul(x5, x2)
        x9 == Mul(x7, x2)
    IN  x - x3 \div 6 + x5 \div 120 - x7 \div 5040 + x9 \div 362880

CosSmall(x) ==
    LET x2 == Mul(x, x)
        x4 == Mul(x2, x2)
        x6 == Mul(x4, x2)
        x8 == Mul(x4, x4)
    IN  Scale - x2 \div 2 + x4 \div 24 - x6 \div 720 + x8 \div 40320

\* [c, s]: cosine and sine of the angle a (radians), by quadrant
CosSin(a) ==
    LET t == ((a % TwoPi) + TwoPi) % TwoPi
        q == t \div HALF_PI
        r == t % HALF_PI
        c == CosSmall(r)
        s == SinSmall(r)
    IN  CASE q = 0 -> [c |-> c, s |-> s]
          [] q = 1 -> [c |-> -s, s |-> c]
          [] q = 2 -> [c |-> -c, s |-> -s]
          [] q = 3 -> [c |-> s, s |-> -c]
          [] OTHER -> [c |-> c, s |-> s]

(***************************************************************************)
(* p5.Vector                                                               *)
(***************************************************************************)
createVector(x, y) == [x |-> x, y |-> y]

VAdd(a, b) == [x |-> a.x + b.x, y |-> a.y + b.y]

VSub(a, b) == [x |-> a.x - b.x, y |-> a.y - b.y]

VMult(a, n) == [x |-> Mul(a.x, n), y |-> Mul(a.y, n)]

\* p5.Vector.div warns and leaves the vector alone on a zero divisor
VDiv(a, n) == IF n = 0 THEN a ELSE [x |-> Div(a.x, n), y |-> Div(a.y, n)]

VMag(a) == Sqrt(Mul(a.x, a.x) + Mul(a.y, a.y))

VDist(a, b) == VMag(VSub(a, b))

VNormalize(a) == LET len == VMag(a) IN IF len = 0 THEN a ELSE VDiv(a, len)

VRotate(a, angle) ==
    LET cs == CosSin(angle)
    IN  [x |-> Mul(a.x, cs.c) - Mul(a.y, cs.s),
         y |-> Mul(a.x, cs.s) + Mul(a.y, cs.c)]

VDot(a, b) == Mul(a.x, b.x) + Mul(a.y, b.y)

\* z component of the cross product of two plane vectors
VCrossZ(a, b) == Mul(a.x, b.y) - Mul(a.y, b.x)

(***************************************************************************)
(* Canvas: createCanvas(720, 480) sets p5's width and height.             *)
(***************************************************************************)
CanvasWidth == 720

CanvasHeight == 480

width == Num(CanvasWidth)

height == Num(CanvasHeight)

constrain(n, low, high) == Max(Min(n, high), low)

\* an unset array slot (new Array(n)) is <<>>, a set one is <<value>>
Undefined == <<>>

Indexes(seq) == 1 .. Len(seq)

(***************************************************************************)
(* spring and node.  A spring's index is 1-based here (0-based in JS).    *)
(***************************************************************************)
spring(length, stiffness, index) ==
    [length |-> length, stiffness |-> stiffness, index |-> index]

node(position, mass, damping, springs) ==
    [position |-> position, mass |-> mass, damping |-> damping,
     springs |-> springs, momentum |-> createVector(0, 0)]

\* variant: the goal is laid off from the node itself ("then adding the
\* location of the current node")
goal_position_from_self(self, goal_spring, nodes) ==
    LET goal_node == nodes[goal_spring.index]
    IN  VAdd(VMult(VNormalize(VSub(self.position, goal_node.position)),
                   goal_spring.length),
             self.position)

\* the goal position of one spring of node self
goal_position(self, goal_spring, nodes) ==
    LET goal_node == nodes[goal_spring.index]
    IN  VAdd(VMult(VNormalize(VSub(self.position, goal_node.position)),
                   goal_spring.length),
             goal_node.position)

\* variant: the acceleration is not scaled by the spring's stiffness
goal_vector_unscaled(self, goal_spring, nodes) ==
    VDiv(VSub(goal_position(self, goal_spring, nodes), self.position),
         self.mass)

\* the acceleration one spring adds to the momentum of node self
goal_vector(self, goal_spring, nodes) ==
    VDiv(VMult(VSub(goal_position(self, goal_spring, nodes), self.position),
               goal_spring.stiffness),
         self.mass)

RECURSIVE SpringLoop(_, _, _)
SpringLoop(self, nodes, i) ==
    IF i > Len(self.springs) THEN self
    ELSE SpringLoop(
             [self EXCEPT !.momentum =
                 VAdd(self.momentum, goal_vector(self, self.springs[i], nodes))],
             nodes, i + 1)

integrate_springs(self, nodes) == SpringLoop(self, nodes, 1)

apply_damping(self, softbody_angular, softbody_linear, softbody_position, average_distance) ==
    LET local_position == VSub(self.position, softbody_position)
        local_angular ==
            VDiv(VSub(VRotate(local_position, radians(softbody_angular.z)),
                      local_position),
                 average_distance)
        total_momentum == VAdd(softbody_linear, local_angular)
    IN  [self EXCEPT !.momentum =
            VAdd(VMult(VSub(self.momentum, total_momentum), Scale - self.damping),
                 total_momentum)]

integrate_external(self, softbody_external) ==
    [self EXCEPT !.momentum = VAdd(self.momentum, softbody_external)]

node_update(self) ==
    [self EXCEPT !.position = VAdd(self.position, self.momentum)]

\* variant: applies the friction without reflecting the momentum
boundary_collide_unreflected(self, friction) ==
    LET m0 == self.momentum
        m1 == IF self.position.x < 0 \/ self.position.x > width
              THEN VMult(m0, Scale - friction)
              ELSE m0
        m2 == IF self.position.y < 0 \/ self.position.y > height
              THEN VMult(m1, Scale - friction)
              ELSE m1
    IN  [self EXCEPT
            !.momentum = m2,
            !.position = [x |-> constrain(self.position.x, 0, width),
                          y |-> constrain(self.position.y, 0, height)]]

\* variant: a node on a wall counts as outside (<=, >=)
boundary_collide_inclusive(self, friction) ==
    LET m0 == self.momentum
        m1 == IF self.position.x <= 0 \/ self.position.x >= width
              THEN VMult([x |-> -m0.x, y |-> m0.y], Scale - friction)
              ELSE m0
        m2 == IF self.position.y <= 0 \/ self.position.y >= height
              THEN VMult([x |-> m1.x, y |-> -m1.y], Scale - friction)
              ELSE m1
    IN  [self EXCEPT
            !.momentum = m2,
            !.position = [x |-> constrain(self.position.x, 0, width),
                          y |-> constrain(self.position.y, 0, height)]]

\* variant: reflects and damps, but leaves the position where it is
boundary_collide_unclamped(self, friction) ==
    LET m0 == self.momentum
        m1 == IF self.position.x < 0 \/ self.position.x > width
              THEN VMult([x |-> -m0.x, y |-> m0.y], Scale - friction)
              ELSE m0
        m2 == IF self.position.y < 0 \/ self.position.y > height
              THEN VMult([x |-> m1.x, y |-> -m1.y], Scale - friction)
              ELSE m1
    IN  [self EXCEPT !.momentum = m2]

boundary_collide(self, friction) ==
    LET m0 == self.momentum
        m1 == IF self.position.x < 0 \/ self.position.x > width
              THEN VMult([x |-> -m0.x, y |-> m0.y], Scale - friction)
              ELSE m0
        m2 == IF self.position.y < 0 \/ self.position.y > height
              THEN VMult([x |-> m1.x, y |-> -m1.y], Scale - friction)
              ELSE m1
    IN  [self EXCEPT
            !.momentum = m2,
            !.position = [x |-> constrain(self.position.x, 0, width),
                          y |-> constrain(self.position.y, 0, height)]]

(***************************************************************************)
(* softbody                                                                *)
(***************************************************************************)
\* variant: zeroes everything but the mass
reset_attributes_keeps_mass(this) ==
    [this EXCEPT
        !.angular_momentum = [x |-> 0, y |-> 0, z |-> 0],
        !.linear_momentum = createVector(0, 0),
        !.position = createVector(0, 0),
        !.external_force = createVector(0, 0),
        !.average_distance = 0,
        !.radii = [k \in Indexes(this.nodes) |-> Undefined],
        !.normals = [k \in Indexes(this.nodes) |-> Undefined]]

\* variant: zeroes everything but the external force
reset_attributes_keeps_force(this) ==
    [this EXCEPT
        !.angular_momentum = [x |-> 0, y |-> 0, z |-> 0],
        !.linear_momentum = createVector(0, 0),
        !.position = createVector(0, 0),
        !.mass = 0,
        !.average_distance = 0,
        !.radii = [k \in Indexes(this.nodes) |-> Undefined],
        !.normals = [k \in Indexes(this.nodes) |-> Undefined]]

reset_attributes(this) ==
    [this EXCEPT
        !.angular_momentum = [x |-> 0, y |-> 0, z |-> 0],
        !.linear_momentum = createVector(0, 0),
        !.position = createVector(0, 0),
        !.external_force = createVector(0, 0),
        !.mass = 0,
        !.average_distance = 0,
        !.radii = [k \in Indexes(this.nodes) |-> Undefined],
        !.normals = [k \in Indexes(this.nodes) |-> Undefined]]

\* first loop of calculate_attributes: the sums
RECURSIVE SumLoop(_, _)
SumLoop(this, i) ==
    IF i > Len(this.nodes) THEN this
    ELSE LET current_node == this.nodes[i]
         IN  SumLoop(
                 [this EXCEPT
                     !.linear_momentum = VAdd(@, current_node.momentum),
                     !.position = VAdd(@, VMult(current_node.position,
                                                current_node.mass)),
                     !.mass = @ + current_node.mass],
                 i + 1)

\* second loop of calculate_attributes: orbital momentum and distance
RECURSIVE OrbitLoop(_, _)
OrbitLoop(this, i) ==
    IF i > Len(this.nodes) THEN this
    ELSE LET current_node == this.nodes[i]
             local_angular == VSub(current_node.position, this.position)
         IN  OrbitLoop(
                 [this EXCEPT
                     !.average_distance =
                         @ + VDist(current_node.position, this.position),
                     !.angular_momentum.z =
                         @ + VCrossZ(local_angular, current_node.momentum)],
                 i + 1)

calculate_attributes(this) ==
    LET n == Num(Len(this.nodes))
        s == SumLoop(this, 1)
        m == Div(s.mass, n)
        a == [s EXCEPT
                 !.linear_momentum = VDiv(@, n),
                 !.mass = m,
                 !.position = VDiv(@, Mul(m, n))]
        o == OrbitLoop(a, 1)
    IN  [o EXCEPT
            !.angular_momentum.x = Div(@, n),
            !.angular_momentum.y = Div(@, n),
            !.angular_momentum.z = Div(@, n),
            !.average_distance = Div(@, n)]

\* the normal of node i: the mean of the normals of its two edges
surface_normal(this, i) ==
    LET l == Len(this.nodes)
        prev == this.nodes[((i - 2 + l) % l) + 1].position
        curr == this.nodes[i].position
        next == this.nodes[(i % l) + 1].position
    IN  VNormalize(VAdd(VNormalize(VRotate(VSub(prev, curr), HALF_PI)),
                        VNormalize(VRotate(VSub(curr, next), HALF_PI))))

calculate_surface(this) ==
    [this EXCEPT
        !.normals = [i \in Indexes(this.nodes) |-> <<surface_normal(this, i)>>],
        !.radii = [i \in Indexes(this.nodes) |->
                      <<VDist(this.nodes[i].position, this.position)>>]]

\* variant: the constructor also computes the aggregates and the surface
softbody_surfaced(nodes) ==
    calculate_surface(calculate_attributes(reset_attributes(
        [nodes |-> nodes,
         angular_momentum |-> [x |-> 0, y |-> 0, z |-> 0],
         linear_momentum |-> createVector(0, 0),
         position |-> createVector(0, 0),
         external_force |-> createVector(0, 0),
         mass |-> 0, average_distance |-> 0,
         radii |-> <<>>, normals |-> <<>>])))

softbody(nodes) ==
    reset_attributes(
        [nodes |-> nodes,
         angular_momentum |-> [x |-> 0, y |-> 0, z |-> 0],
         linear_momentum |-> createVector(0, 0),
         position |-> createVector(0, 0),
         external_force |-> createVector(0, 0),
         mass |-> 0, average_distance |-> 0,
         radii |-> <<>>, normals |-> <<>>])

\* what node i of the body adds to hrbf for the query point
field_term(this, i, point, reg) ==
    IF this.radii[i] = Undefined THEN 0
    ELSE LET position == this.nodes[i].position
             radius == this.radii[i][1]
             normal == this.normals[i][1]
             d == VDist(point, position)
         IN  IF radius = 0 THEN 0
             ELSE IF 0 <= Div(d, radius) /\ Div(d, radius) <= Scale
                  THEN LET r_sqr == Pow(radius, 2)
                           v1 == VMult(normal,
                                       Div(r_sqr, Num(20) + Mul(reg, r_sqr)))
                           v2 == VMult(VSub(point, position),
                                       Div(Mul(Num(20), Pow(d - radius, 3)),
                                           Pow(radius, 5)))
                       IN  -VDot(v1, v2)
                  ELSE 0

RECURSIVE FieldLoop(_, _, _, _)
FieldLoop(this, i, point, reg) ==
    IF i > Len(this.nodes) THEN 0
    ELSE field_term(this, i, point, reg) + FieldLoop(this, i + 1, point, reg)

volume_field(this, point) == FieldLoop(this, 1, point, Num(1))

\* variant: a node on the surface (field value 0) is treated as inside
node_collide_object_nonpositive(self, object, normal, damping, force) ==
    LET scalar == volume_field(object, self.position)
    IN  IF scalar <= 0
        THEN [self EXCEPT !.momentum =
                 VMult(VSub(@, VMult(normal, Mul(force, -scalar))),
                       Scale - damping)]
        ELSE self

node_collide_object(self, object, normal, damping, force) ==
    LET scalar == volume_field(object, self.position)
    IN  IF scalar < 0
        THEN [self EXCEPT !.momentum =
                 VMult(VSub(@, VMult(normal, Mul(force, -scalar))),
                       Scale - damping)]
        ELSE self

integrate_forces(this) ==
    [this EXCEPT !.nodes =
        [i \in Indexes(this.nodes) |->
            integrate_springs(
                integrate_external(this.nodes[i], this.external_force),
                this.nodes)]]

damp_update_boundary(this, friction) ==
    [this EXCEPT !.nodes =
        [i \in Indexes(this.nodes) |->
            boundary_collide(
                node_update(
                    apply_damping(this.nodes[i], this.angular_momentum,
                                  this.linear_momentum, this.position,
                                  this.average_distance)),
                friction)]]

collide_object(this, object, damping, force) ==
    [this EXCEPT !.nodes =
        [i \in Indexes(this.nodes) |->
            node_collide_object(this.nodes[i], object, this.normals[i][1],
                                damping, force)]]

(***************************************************************************)
(* Construction (demo.js): a body whose every node has a spring to every  *)
(* other node, at rest length, as create_square wires them.               *)
(***************************************************************************)
P(x, y) == createVector(Num(x), Num(y))

Others(n, i) == SelectSeq([j \in 1 .. n |-> j], LAMBDA j : j # i)

create_body(positions, masses, damping, stiffness) ==
    softbody(
        [i \in Indexes(positions) |->
            node(positions[i], masses[i], damping,
                 [k \in 1 .. (Len(positions) - 1) |->
                     spring(VDist(positions[i],
                                  positions[Others(Len(positions), i)[k]]),
                            stiffness,
                            Others(Len(positions), i)[k])])])

\* a caller's assignment of the nodes' momenta
with_momenta(body, momenta) ==
    [body EXCEPT !.nodes =
        [i \in Indexes(body.nodes) |->
            [body.nodes[i] EXCEPT !.momentum = momenta[i]]]]

\* a caller's assignment of the nodes' positions
with_positions(body, positions) ==
    [body EXCEPT !.nodes =
        [i \in Indexes(body.nodes) |->
            [body.nodes[i] EXCEPT !.position = positions[i]]]]

(***************************************************************************)
(* Force generators (demo.js).  A generator is called with (softbody,      *)
(* index) and the pointer state and yields the force it applies.          *)
(***************************************************************************)
gravity_force(gravity) == [kind |-> "gravity", gravity |-> gravity]

mouse_force(mouse_pull) == [kind |-> "mouse", mouse_pull |-> mouse_pull]

NoForce == createVector(0, 0)

Generate(generator, body, index, mouse) ==
    IF generator.kind = "gravity" THEN generator.gravity
    ELSE IF mouse.mouseIsPressed
         THEN VMult(VSub(createVector(mouse.mouseX, mouse.mouseY), body.position),
                    generator.mouse_pull)
         ELSE NoForce

scene(bodies, boundary_friction, collison_damping, collision_force, forces) ==
    [boundary_friction |-> boundary_friction,
     collison_damping |-> collison_damping,
     collision_force |-> collision_force,
     forces |-> forces]

(***************************************************************************)
(* Bounds and inputs                                                       *)
(***************************************************************************)
MaxFrames == 3

MaxCalls == 2

MaxRestFrames == 10

MouseInputs ==
    {[mouseIsPressed |-> FALSE, mouseX |-> 0, mouseY |-> 0],
     [mouseIsPressed |-> TRUE, mouseX |-> Num(30), mouseY |-> Num(460)]}

Ones(n) == [k \in 1 .. n |-> Num(1)]

\* a square and a right triangle that overlap, near the lower left corner
SquareAt(x, y, damping) ==
    create_body(<<P(x + 6, y), P(x + 6, y + 6), P(x, y + 6), P(x, y)>>,
                Ones(4), damping, Scale \div 2)

TriangleAt(x, y, damping) ==
    create_body(<<P(x, y - 4), P(x, y), P(x - 3, y)>>, Ones(3), damping,
                Scale \div 2)

DemoForces == <<mouse_force(5), gravity_force(P(0, 1))>>

Scenes ==
    {[bodies |-> <<SquareAt(1, 471, 300), TriangleAt(9, 476, 300)>>,
      scene |-> scene(<<>>, 600, 700, Num(4), DemoForces)],
     [bodies |-> <<TriangleAt(2, 479, 300), SquareAt(0, 474, 0)>>,
      scene |-> scene(<<>>, 500, 0, Num(4), DemoForces)],
     [bodies |-> <<SquareAt(-2, 476, 300), TriangleAt(4, 478, 0),
                   TriangleAt(6, 481, 300)>>,
      scene |-> scene(<<>>, 600, 700, Num(2), <<gravity_force(P(0, 1))>>)]}

(***************************************************************************)
(* State                                                                   *)
(***************************************************************************)
VARIABLES
    softbodies,  \* scene.softbodies
    params,      \* the scene's other fields
    pc,          \* the statement of update() that runs next
    current,     \* how far update()'s loop over the bodies has come
    frame,       \* number of update() calls so far
    returned,    \* what the force generators returned in the current step
    ran,         \* the statements run so far in the current step
    seen,        \* seen[i][j]: body j's surface as body i's collision read it
    left,        \* left[j]: body j's surface at the end of its latest step
    constructed, \* the bodies as constructed
    call         \* the method call made last (method calls specification)

vars == <<softbodies, params, pc, current, frame, returned, ran, seen, left,
          constructed, call>>

\* the surface data of a body that volume_field reads
Surface(body) ==
    [positions |-> [k \in Indexes(body.nodes) |-> body.nodes[k].position],
     normals |-> body.normals,
     radii |-> body.radii]

\* variant: the loop runs from the last body to the first
BodyOrderReversed(n) == [k \in 1 .. n |-> n + 1 - k]

\* the order in which update() visits the bodies: for (let i = 0; ...; i++)
BodyOrder(n) == [k \in 1 .. n |-> k]

\* the body update() is working on
I == BodyOrder(Len(softbodies))[current]

InitWith(s) ==
    /\ softbodies = s.bodies
    /\ params = s.scene
    /\ pc = "idle"
    /\ current = 0
    /\ frame = 0
    /\ returned = <<>>
    /\ ran = {}
    /\ seen = [i \in Indexes(s.bodies) |-> [j \in Indexes(s.bodies) |-> Undefined]]
    /\ left = [j \in Indexes(s.bodies) |->
                  [frame |-> 0, surface |-> Surface(s.bodies[j])]]
    /\ constructed = s.bodies
    /\ call = [method |-> "none", count |-> 0]

Init == \E s \in Scenes : InitWith(s)

(***************************************************************************)
(* scene.update(), statement by statement                                  *)
(***************************************************************************)
Step(next, body) ==
    /\ softbodies' = [softbodies EXCEPT ![I] = body]
    /\ ran' = ran \cup {pc}
    /\ pc' = next
    /\ UNCHANGED <<params, current, frame, constructed, call>>

\* draw() calls example.update()
UpdateWithin(limit) ==
    /\ pc = "idle"
    /\ frame < limit
    /\ Len(softbodies) > 0
    /\ pc' = "forces"
    /\ current' = 1
    /\ frame' = frame + 1
    /\ ran' = {}
    /\ returned' = <<>>
    /\ UNCHANGED <<softbodies, params, seen, left, constructed, call>>

Update == UpdateWithin(MaxFrames)

RECURSIVE ForceLoop(_, _, _, _)
ForceLoop(body, index, mouse, j) ==
    IF j > Len(params.forces) THEN [body |-> body, returned |-> <<>>]
    ELSE LET f == Generate(params.forces[j], body, index, mouse)
             rest == ForceLoop([body EXCEPT !.external_force = VAdd(@, f)],
                               index, mouse, j + 1)
         IN  [body |-> rest.body, returned |-> <<f>> \o rest.returned]

ApplyForces ==
    /\ pc = "forces"
    /\ \E mouse \in MouseInputs :
          LET r == ForceLoop(softbodies[I], I, mouse, 1)
          IN  /\ Step("integrate_forces", r.body)
              /\ returned' = r.returned
    /\ UNCHANGED <<seen, left>>

IntegrateForces ==
    /\ pc = "integrate_forces"
    /\ Step("reset_attributes", integrate_forces(softbodies[I]))
    /\ UNCHANGED <<returned, seen, left>>

ResetAttributes ==
    /\ pc = "reset_attributes"
    /\ Step("calculate_attributes", reset_attributes(softbodies[I]))
    /\ UNCHANGED <<returned, seen, left>>

CalculateAttributes ==
    /\ pc = "calculate_attributes"
    /\ Step("calculate_surface", calculate_attributes(softbodies[I]))
    /\ UNCHANGED <<returned, seen, left>>

CalculateSurface ==
    /\ pc = "calculate_surface"
    /\ Step("damp_update_boundary", calculate_surface(softbodies[I]))
    /\ UNCHANGED <<returned, seen, left>>

DampUpdateBoundary ==
    /\ pc = "damp_update_boundary"
    /\ Step("collide_object",
            damp_update_boundary(softbodies[I], params.boundary_friction))
    /\ UNCHANGED <<returned, seen, left>>

\* for (let j = 0; ...; j++) if (i != j) softbodies[i].collide_object(...)
RECURSIVE CollideLoop(_, _, _)
CollideLoop(body, read, j) ==
    IF j > Len(softbodies) THEN [body |-> body, read |-> read]
    ELSE IF j = I THEN CollideLoop(body, read, j + 1)
    ELSE CollideLoop(
             collide_object(body, softbodies[j], params.collison_damping,
                            params.collision_force),
             [read EXCEPT ![j] = Surface(softbodies[j])],
             j + 1)

CollideObjects ==
    /\ pc = "collide_object"
    /\ LET r == CollideLoop(softbodies[I], seen[I], 1)
       IN  /\ Step("display", r.body)
           /\ seen' = [seen EXCEPT ![I] = r.read]
    /\ UNCHANGED <<returned, left>>

\* display() draws; the loop moves on to the next body or update() returns
Display ==
    /\ pc = "display"
    /\ left' = [left EXCEPT ![I] = [frame |-> frame,
                                    surface |-> Surface(softbodies[I])]]
    /\ IF current < Len(softbodies)
       THEN /\ current' = current + 1
            /\ pc' = "forces"
       ELSE /\ current' = 0
            /\ pc' = "idle"
    /\ ran' = {}
    /\ UNCHANGED <<softbodies, params, frame, returned, seen, constructed, call>>

Next ==
    \/ Update
    \/ ApplyForces
    \/ IntegrateForces
    \/ ResetAttributes
    \/ CalculateAttributes
    \/ CalculateSurface
    \/ DampUpdateBoundary
    \/ CollideObjects
    \/ Display

Spec == Init /\ [][Next]_vars

(***************************************************************************)
(* A body at rest: one body, no force generator, node damping 0, every     *)
(* spring at its rest length, node momenta zero as node() sets them.       *)
(***************************************************************************)
RestBodies ==
    {TriangleAt(20, 100, 0),
     TriangleAt(3, 4, 0),
     TriangleAt(2, 3, 0),
     TriangleAt(722, 482, 0),
     create_body(<<P(13, 50), P(13, 54), P(10, 54), P(10, 50)>>, Ones(4), 0,
                 Scale \div 2),
     create_body(<<P(708, 470), P(708, 478), P(702, 478)>>,
                 <<Num(1), Num(2), Num(3)>>, 0, Scale \div 4),
     create_body(<<P(5, 5), P(5, 9)>>, Ones(2), 0, Scale)}

InitRest ==
    \E body \in RestBodies :
        InitWith([bodies |-> <<body>>, scene |-> scene(<<>>, 600, 700, Num(4), <<>>)])

UpdateRest == UpdateWithin(MaxRestFrames)

NextRest ==
    \/ UpdateRest
    \/ ApplyForces
    \/ IntegrateForces
    \/ ResetAttributes
    \/ CalculateAttributes
    \/ CalculateSurface
    \/ DampUpdateBoundary
    \/ CollideObjects
    \/ Display

SpecRest == InitRest /\ [][NextRest]_vars

(***************************************************************************)
(* Method calls: a caller (a test) builds two bodies, sets node momenta    *)
(* and positions, and calls the methods of the first body and its nodes    *)
(* in any order.  call records the call made last and the bodies before    *)
(* it.                                                                     *)
(***************************************************************************)
Frictions == {0, Scale \div 2, params.boundary_friction}

\* the three statements of update() that rebuild a body's derived attributes
recalculate(body) ==
    calculate_surface(calculate_attributes(reset_attributes(body)))

\* the spec's boundary scenario and its neighbours: nodes outside the canvas
\* on one axis, on both, and on the walls
EdgeBody ==
    with_momenta(
        create_body(<<P(-5, 50), P(-5, -5), P(725, 490), P(0, 480)>>,
                    Ones(4), 300, Scale \div 2),
        <<P(-3, 0), P(-3, -4), P(6, 2), P(1, -1)>>)

\* two nodes of unequal mass turning about their centre of mass
UnequalBody ==
    with_momenta(
        create_body(<<P(0, 0), P(4, 0)>>, <<Num(1), Num(3)>>, Scale \div 2, 0),
        <<P(0, 0), P(0, 360)>>)

\* a triangle moved off its rest shape, into the square next to it
MovedTriangle ==
    with_momenta(
        with_positions(TriangleAt(9, 476, 300),
                       <<P(9, 471), P(8, 476), P(5, 475)>>),
        <<P(1, 0), P(0, -2), P(-1, 1)>>)

\* a square turning about its centre
TurningSquare ==
    with_momenta(SquareAt(12, 100, 300),
                 <<P(0, 3), P(-3, 0), P(0, -3), P(3, 0)>>)

MethodCases ==
    {[bodies |-> <<EdgeBody, recalculate(SquareAt(1, 471, 300))>>,
      scene |-> scene(<<>>, 600, 700, Num(4), <<>>)],
     [bodies |-> <<UnequalBody, SquareAt(1, 471, 300)>>,
      scene |-> scene(<<>>, 600, 700, Num(4), <<>>)],
     [bodies |-> <<MovedTriangle, recalculate(SquareAt(1, 471, 300))>>,
      scene |-> scene(<<>>, 600, 700, Num(4), <<>>)],
     [bodies |-> <<TurningSquare, recalculate(TriangleAt(13, 106, 0))>>,
      scene |-> scene(<<>>, 0, 500, Num(2), <<>>)]}

InitMethods ==
    \E s \in MethodCases :
        /\ softbodies = s.bodies
        /\ params = s.scene
        /\ pc = "methods"
        /\ current = 0
        /\ frame = 0
        /\ returned = <<>>
        /\ ran = {}
        /\ seen = <<>>
        /\ left = <<>>
        /\ constructed = s.bodies
        /\ call = [method |-> "none", count |-> 0]

Called(method, body, k, friction, after) ==
    /\ pc = "methods"
    /\ call.count < MaxCalls
    /\ softbodies' = [softbodies EXCEPT ![body] = after]
    /\ call' = [method |-> method, count |-> call.count + 1, body |-> body,
                node |-> k, friction |-> friction, before |-> softbodies,
                previous |-> [method |-> call.method,
                              body |-> IF call.count = 0 THEN 0 ELSE call.body,
                              node |-> IF call.count = 0 THEN 0 ELSE call.node]]
    /\ UNCHANGED <<params, pc, current, frame, returned, ran, seen, left,
                   constructed>>

CallIntegrateSprings ==
    \E k \in Indexes(softbodies[1].nodes) :
        Called("integrate_springs", 1, k, 0,
               [softbodies[1] EXCEPT !.nodes[k] =
                   integrate_springs(@, softbodies[1].nodes)])

CallUpdate ==
    \E k \in Indexes(softbodies[1].nodes) :
        Called("update", 1, k, 0,
               [softbodies[1] EXCEPT !.nodes[k] = node_update(@)])

CallBoundaryCollide ==
    \E k \in Indexes(softbodies[1].nodes) : \E friction \in Frictions :
        Called("boundary_collide", 1, k, friction,
               [softbodies[1] EXCEPT !.nodes[k] = boundary_collide(@, friction)])

\* apply_damping on every node, with the body's aggregates as they stand
CallApplyDamping ==
    Called("apply_damping", 1, 0, 0,
           [softbodies[1] EXCEPT !.nodes =
               [k \in Indexes(softbodies[1].nodes) |->
                   apply_damping(softbodies[1].nodes[k],
                                 softbodies[1].angular_momentum,
                                 softbodies[1].linear_momentum,
                                 softbodies[1].position,
                                 softbodies[1].average_distance)]])

CallRecalculate ==
    \E b \in Indexes(softbodies) :
        Called("recalculate", b, 0, 0, recalculate(softbodies[b]))

\* softbody.collide_object passes this.normals[i]: they must have been set
CallCollideObject ==
    /\ \A k \in Indexes(softbodies[1].normals) :
          softbodies[1].normals[k] # Undefined
    /\ Called("collide_object", 1, 0, 0,
              collide_object(softbodies[1], softbodies[2],
                             params.collison_damping, params.collision_force))

NextMethods ==
    \/ CallIntegrateSprings
    \/ CallUpdate
    \/ CallBoundaryCollide
    \/ CallApplyDamping
    \/ CallRecalculate
    \/ CallCollideObject

SpecMethods == InitMethods /\ [][NextMethods]_vars

(***************************************************************************)
(* Properties                                                              *)
(***************************************************************************)
InBounds(p) == 0 <= p.x /\ p.x <= width /\ 0 <= p.y /\ p.y <= height

AllInBounds(body) == \A k \in Indexes(body.nodes) : InBounds(body.nodes[k].position)

RECURSIVE VSum(_)
VSum(vs) == IF vs = <<>> THEN createVector(0, 0) ELSE VAdd(Head(vs), VSum(Tail(vs)))

\* C1: bodies are processed in list order, and when body i has just been
\* collided against the other bodies, the surface of body j it read (node
\* positions, normals, radii) is the one body j's own latest step left
\* behind: this pass's when j < i, the previous pass's (the constructed body
\* in the first pass) when j > i.
C1_CollisionReadsLatestStep ==
    pc = "display" =>
        /\ I = current
        /\ \A j \in Indexes(softbodies) \ {I} :
              /\ seen[I][j] = left[j].surface
              /\ left[j].frame = IF j < I THEN frame ELSE frame - 1

\* C1 witness: in a second pass the middle body of three has been collided
\* against an earlier and a later body, whose surfaces are both set.
C1_Witness ==
    /\ pc = "display"
    /\ frame >= 2
    /\ Len(softbodies) = 3
    /\ I = 2
    /\ left[1].frame = frame
    /\ left[3].frame = frame - 1
    /\ seen[2][1] = left[1].surface
    /\ seen[2][3] = left[3].surface
    /\ \A k \in Indexes(seen[2][3].radii) : seen[2][3].radii[k] # Undefined

C10_PositionsInBounds ==
    /\ (pc = "idle" /\ frame > 0) =>
           \A b \in Indexes(softbodies) : AllInBounds(softbodies[b])
    /\ pc = "display" => AllInBounds(softbodies[I])

\* C10 witness: update() has returned; a node built outside the canvas now
\* lies on a wall, and a body was collided against a surface that was set.
C10_Witness ==
    /\ pc = "idle"
    /\ frame >= 2
    /\ \A b \in Indexes(softbodies) : AllInBounds(softbodies[b])
    /\ \E b \in Indexes(softbodies) : \E k \in Indexes(softbodies[b].nodes) :
          /\ ~InBounds(constructed[b].nodes[k].position)
          /\ softbodies[b].nodes[k].position.y = height
    /\ \E b \in Indexes(softbodies) : \E j \in Indexes(softbodies) \ {b} :
          /\ seen[b][j] # Undefined
          /\ \A k \in Indexes(seen[b][j].radii) : seen[b][j].radii[k] # Undefined

\* the points at which the field of a body is queried: the places of all
\* nodes, as they are and as built, and the points one unit around them
QueryPoints ==
    LET placesOf(body) ==
            {body.nodes[k].position : k \in Indexes(body.nodes)}
        places ==
            UNION {placesOf(softbodies[b]) \cup placesOf(constructed[b]) :
                      b \in Indexes(softbodies)}
        around == {createVector(dx, dy) :
                      dx \in {-Scale, 0, Scale}, dy \in {-Scale, 0, Scale}}
    IN  {VAdd(p, a) : p \in places, a \in around}

\* no normal and no radius of the body is set
SurfaceUnset(body) ==
    \A k \in Indexes(body.radii) :
        body.radii[k] = Undefined /\ body.normals[k] = Undefined

\* the body after the collisions against the bodies before it in the list
RECURSIVE CollidedWithEarlier(_, _)
CollidedWithEarlier(body, j) ==
    IF j >= I THEN body
    ELSE CollidedWithEarlier(
             collide_object(body, softbodies[j], params.collison_damping,
                            params.collision_force),
             j + 1)

\* C11: in the first update() after construction, when body i is collided
\* against the other bodies, every body j after it in the list has no normal
\* and no radius set, its volume_field is 0 at every query point, and the
\* collision against it changes no node of body i: body i leaves the
\* collision statement as the collisions against the earlier bodies made it.
C11_FirstPassLaterBodiesUnset ==
    [][(pc = "collide_object" /\ frame = 1) =>
          /\ \A j \in Indexes(softbodies) :
                j > I =>
                  /\ SurfaceUnset(softbodies[j])
                  /\ \A point \in QueryPoints :
                        volume_field(softbodies[j], point) = 0
                  /\ collide_object(CollidedWithEarlier(softbodies[I], 1),
                                    softbodies[j], params.collison_damping,
                                    params.collision_force)
                        = CollidedWithEarlier(softbodies[I], 1)
          /\ softbodies'[I] = CollidedWithEarlier(softbodies[I], 1)
          /\ \A j \in Indexes(softbodies) :
                j > I => SurfaceUnset(seen'[I][j])]_vars

\* C11 witness: in the first update() of a scene of three bodies, a body has
\* been collided against a later body whose surface it read unset, while one
\* of its nodes lies where that body's field, once its surface is
\* calculated, is negative.
C11_Witness ==
    /\ pc = "display"
    /\ frame = 1
    /\ Len(softbodies) = 3
    /\ \E j \in Indexes(softbodies) :
          /\ j > I
          /\ SurfaceUnset(seen[I][j])
          /\ SurfaceUnset(softbodies[j])
          /\ \E k \in Indexes(softbodies[I].nodes) :
                volume_field(recalculate(softbodies[j]),
                             softbodies[I].nodes[k].position) < 0

(***************************************************************************)
(* Properties of the method calls (SpecMethods)                            *)
(***************************************************************************)
\* the node a node-level call acted on, before and after
NodeBefore == call.before[1].nodes[call.node]

NodeAfter == softbodies[1].nodes[call.node]

XOut(p) == p.x < 0 \/ p.x > width

YOut(p) == p.y < 0 \/ p.y > height

\* the momentum with the component of each violated axis negated
Flipped(n) ==
    [x |-> IF XOut(n.position) THEN -n.momentum.x ELSE n.momentum.x,
     y |-> IF YOut(n.position) THEN -n.momentum.y ELSE n.momentum.y]

Clamped(p) == [x |-> constrain(p.x, 0, width), y |-> constrain(p.y, 0, height)]

\* C5 as stated: a node outside the bounds on one or both axes gets the
\* momentum component of each violated axis negated, the whole momentum scaled
\* by (1 - friction), and its position clamped into the bounds.
C5_ScaledOnce ==
    (call.method = "boundary_collide"
        /\ (XOut(NodeBefore.position) \/ YOut(NodeBefore.position))) =>
        /\ NodeAfter.momentum = VMult(Flipped(NodeBefore), Scale - call.friction)
        /\ NodeAfter.position = Clamped(NodeBefore.position)

\* C5 as amended: the momentum is scaled by (1 - friction) once for each
\* violated axis, so by (1 - friction)^2 when both axes are violated.
C5_ScaledPerViolatedAxis ==
    (call.method = "boundary_collide"
        /\ (XOut(NodeBefore.position) \/ YOut(NodeBefore.position))) =>
        /\ NodeAfter.momentum =
              IF XOut(NodeBefore.position) /\ YOut(NodeBefore.position)
              THEN VMult(VMult(Flipped(NodeBefore), Scale - call.friction),
                         Scale - call.friction)
              ELSE VMult(Flipped(NodeBefore), Scale - call.friction)
        /\ NodeAfter.position = Clamped(NodeBefore.position)
        /\ NodeAfter.mass = NodeBefore.mass
        /\ NodeAfter.springs = NodeBefore.springs

\* C5 witness: the spec's example, position (-5, 50), momentum (-3, 0),
\* friction 0.5 gives momentum (1.5, 0) and position (0, 50).
C5_Witness ==
    /\ call.method = "boundary_collide"
    /\ NodeBefore.position = P(-5, 50)
    /\ NodeBefore.momentum = P(-3, 0)
    /\ call.friction = Scale \div 2
    /\ NodeAfter.momentum = createVector(Num(3) \div 2, 0)
    /\ NodeAfter.position = P(0, 50)

\* C6: boundary_collide on a node whose position is inside the bounds (the
\* walls included) changes neither momentum nor position, for every friction.
C6_IdempotentInside ==
    (call.method = "boundary_collide" /\ InBounds(NodeBefore.position)) =>
        NodeAfter = NodeBefore

\* C6 witness: the second of two boundary_collide calls on a node that the
\* first one clamped onto the wall x = 0, with friction and momentum non-zero.
C6_Witness ==
    /\ call.method = "boundary_collide"
    /\ call.previous.method = "boundary_collide"
    /\ call.previous.node = call.node
    /\ ~InBounds(constructed[1].nodes[call.node].position)
    /\ NodeBefore.position.x = 0
    /\ NodeBefore.momentum.x # 0
    /\ call.friction # 0
    /\ NodeAfter = NodeBefore

\* the derived attributes of a body
Derived(body) ==
    [mass |-> body.mass, position |-> body.position,
     linear_momentum |-> body.linear_momentum,
     angular_momentum |-> body.angular_momentum,
     average_distance |-> body.average_distance,
     normals |-> body.normals, radii |-> body.radii]

\* C7: with the node state unchanged in between, reset_attributes then
\* calculate_attributes / calculate_surface run a second time leave the same
\* derived attributes as the first time.
C7_RecalculateRepeats ==
    (call.method = "recalculate"
        /\ call.previous.method = "recalculate"
        /\ call.previous.body = call.body) =>
        /\ Derived(softbodies[call.body]) = Derived(call.before[call.body])
        /\ softbodies[call.body].nodes = call.before[call.body].nodes

\* C7 witness: a body that moves and turns, recalculated twice in a row
C7_Witness ==
    /\ call.method = "recalculate"
    /\ call.previous.method = "recalculate"
    /\ call.previous.body = call.body
    /\ softbodies[call.body].mass # 0
    /\ softbodies[call.body].angular_momentum.z # 0
    /\ softbodies[call.body].average_distance # 0
    /\ \A k \in Indexes(softbodies[call.body].nodes) :
          /\ softbodies[call.body].normals[k] # Undefined
          /\ softbodies[call.body].radii[k] # Undefined
    /\ Derived(softbodies[call.body]) = Derived(call.before[call.body])

\* the goal point of a spring: the target node's position plus a unit vector
\* scaled to the rest length; the unit vector runs from the target node to
\* this node, or (towards) from this node to the target node
GoalPoint(self, s, nodes, towards) ==
    LET target == nodes[s.index].position
        unit == IF towards
                THEN VNormalize(VSub(target, self.position))
                ELSE VNormalize(VSub(self.position, target))
    IN  VAdd(target, VMult(unit, s.length))

RECURSIVE SpringSum(_, _, _, _)
SpringSum(self, springs, nodes, towards) ==
    IF springs = <<>> THEN createVector(0, 0)
    ELSE VAdd(VDiv(VMult(VSub(GoalPoint(self, Head(springs), nodes, towards),
                              self.position),
                         Head(springs).stiffness),
                   self.mass),
              SpringSum(self, Tail(springs), nodes, towards))

\* C8 as stated: the goal point is the target node's position plus the unit
\* vector from this node to the target node scaled to the rest length, and
\* the momentum gains (goal - position) * stiffness / mass for every spring.
C8_UnitVectorTowardsTarget ==
    call.method = "integrate_springs" =>
        NodeAfter.momentum =
            VAdd(NodeBefore.momentum,
                 SpringSum(NodeBefore, NodeBefore.springs, call.before[1].nodes,
                           TRUE))

\* C8 as amended: the unit vector runs from the target node to this node, so
\* the goal point lies at rest length from the target on this node's side.
C8_UnitVectorFromTarget ==
    call.method = "integrate_springs" =>
        /\ NodeAfter.momentum =
              VAdd(NodeBefore.momentum,
                   SpringSum(NodeBefore, NodeBefore.springs,
                             call.before[1].nodes, FALSE))
        /\ NodeAfter.position = NodeBefore.position
        /\ \A k \in Indexes(softbodies[1].nodes) \ {call.node} :
              softbodies[1].nodes[k] = call.before[1].nodes[k]

\* C8 witness: springs off their rest length have changed a node's momentum
C8_Witness ==
    /\ call.method = "integrate_springs"
    /\ Len(NodeBefore.springs) >= 2
    /\ NodeAfter.momentum # NodeBefore.momentum
    /\ \E i \in Indexes(NodeBefore.springs) :
          VDist(NodeBefore.position,
                call.before[1].nodes[NodeBefore.springs[i].index].position)
              # NodeBefore.springs[i].length

\* the momentum of node k after colliding with the other body: unchanged when
\* the field at the node is zero or positive, else moved by sign times
\* force * |value| along the node's normal and scaled by (1 - damping)
Collided(k, sign) ==
    LET n0 == call.before[1].nodes[k]
        value == volume_field(call.before[2], n0.position)
        normal == call.before[1].normals[k][1]
        push == VMult(normal, sign * Mul(params.collision_force, Abs(value)))
    IN  IF value < 0
        THEN VMult(VAdd(n0.momentum, push), Scale - params.collison_damping)
        ELSE n0.momentum

MeanMomentum(body) ==
    VDiv(VSum([k \in Indexes(body.nodes) |-> body.nodes[k].momentum]),
         Num(Len(body.nodes)))

\* rounding allowance for a comparison of computed values: 1 / 100
Near(a, b) ==
    /\ Abs(a.x - b.x) * 100 <= Scale
    /\ Abs(a.y - b.y) * 100 <= Scale

\* C4: apply_damping on every node, with the aggregates calculate_attributes
\* computed from the same node state, leaves the mean of the node momenta (the
\* body's linear momentum) unchanged, for any damping in [0, 1).
C4_DampingKeepsLinearMomentum ==
    (call.method = "apply_damping"
        /\ call.previous.method = "recalculate"
        /\ call.previous.body = 1
        /\ \A k \in Indexes(softbodies[1].nodes) :
              /\ 0 <= softbodies[1].nodes[k].damping
              /\ softbodies[1].nodes[k].damping < Scale) =>
        Near(MeanMomentum(softbodies[1]), MeanMomentum(call.before[1]))

(***************************************************************************)
(* Properties of a body at rest (SpecRest)                                 *)
(***************************************************************************)
\* the centroid calculate_attributes finds for the body's node state
Centroid(body) == calculate_attributes(reset_attributes(body)).position

\* one body, no external force, damping 0, springs at rest length
AtRestAsBuilt ==
    /\ Len(softbodies) = 1
    /\ params.forces = <<>>
    /\ \A k \in Indexes(constructed[1].nodes) :
          /\ constructed[1].nodes[k].damping = 0
          /\ \A i \in Indexes(constructed[1].nodes[k].springs) :
                constructed[1].nodes[k].springs[i].length =
                    VDist(constructed[1].nodes[k].position,
                          constructed[1].nodes[
                              constructed[1].nodes[k].springs[i].index].position)

\* every node's momentum and the body's centroid are as they were built
SameAsBuilt ==
    /\ \A k \in Indexes(softbodies[1].nodes) :
          softbodies[1].nodes[k].momentum = constructed[1].nodes[k].momentum
    /\ MeanMomentum(softbodies[1]) = MeanMomentum(constructed[1])
    /\ Centroid(softbodies[1]) = Centroid(constructed[1])

====
